---- MODULE Spec2Model ----
(***************************************************************************)
(* Retry, backoff and error classification of the ScreenCraft SDK clients. *)
(*                                                                         *)
(* Two clients are modelled side by side, selected by the variable sdk:    *)
(*   "go"    Client.doRequest and its helpers (src/go/screencraft.go,      *)
(*           src/go/errors.go, src/go/screenshot.go)                       *)
(*   "node"  ScreenCraftClient.executeWithRetry and its helpers            *)
(*           (src/nodejs/verify-setup.js, src/nodejs/src/errors.ts)        *)
(*                                                                         *)
(* Durations are in milliseconds.  A call is a process that issues HTTP    *)
(* attempts; the server / transport is the environment and answers every   *)
(* attempt with an arbitrary element of Responses.                         *)
(*                                                                         *)
(* Specifications:                                                         *)
(*   Spec            one call with valid options, every response           *)
(*   SpecCancel      one go call whose context the caller may cancel       *)
(*   SpecValidate    one call with arbitrary url / webhook options         *)
(*   FairSpecValidate  the same, every attempt and every wait ending       *)
(*   SpecSnapshot    two go calls and a reader of the rate-limit snapshot  *)
(*   SpecConcurrent  two concurrent calls of either client                 *)
(*   SpecBelow400    one call answered below 400 or not at all             *)
(*   SpecBuild       the request builders of the go client on their own    *)
(*   SpecExtract     extractRateLimitInfo of the node client on its own    *)
(*   SpecAnyRetries  one go call on a client given any maxRetries          *)
(*   SpecKey         construction with any key, one call, and a caller of  *)
(*                   SetAPIKey running beside it                           *)
(***************************************************************************)
EXTENDS Integers, Sequences, FiniteSets, TLC

VARIABLES
    sdk,            \* which client the run is about: "go" or "node"
    maxRetries,     \* Client.maxRetries / config.maxRetries
    retryWaitMin,   \* Client.retryWaitMin (go), ms
    retryWaitMax,   \* Client.retryWaitMax (go), ms
    retryDelay,     \* config.retryDelay (node), ms
    op,             \* per call: the operation called: "sync" (Screenshot, PDF), "async"
                    \* (ScreenshotAsync, PDFAsync), "none" before the call
    pc,             \* per call: "idle", "inflight", "waiting", "done"
    attempt,        \* per call: the loop variable / recursion argument `attempt`
    lastErr,        \* per call: lastErr (go) / the caught error (node)
    wait,           \* per call: the most recent waitTime / delay computed, ms (0: none yet)
    history,        \* per call: the responses received so far, oldest first
    requests,       \* per call: number of HTTP requests issued
    result,         \* per call: the value returned to the caller
    err,            \* per call: the error returned to the caller
    opts,           \* per call: the url and the webhook url of the options passed
    ctx,            \* per call (go): the caller's context, "active" or "cancelled"
    lastRateLimit,  \* Client.lastRateLimit (go), guarded by Client.mu
    rpc,            \* per reader of GetRateLimitInfo: "idle", "locked" (holds
                    \* mu.RLock), "returned"
    got,            \* per reader: what GetRateLimitInfo returned
    client,         \* the client object: "none" before construction, "built",
                    \* "threw" when the constructor threw
    apiKey,         \* Client.apiKey (go) / config.apiKey (node)
    setter,         \* the caller of SetAPIKey (go): whether it is inside
                    \* SetAPIKey, holding mu, and the key it stores
    authorization,  \* per call: the Authorization header of its latest request
    arg,            \* the argument of the pure function under check
    ret             \* the value that function returned

vars == <<sdk, maxRetries, retryWaitMin, retryWaitMax, retryDelay,
          op, pc, attempt, lastErr, wait, history, requests, result, err,
          opts, ctx, lastRateLimit, rpc, got,
          client, apiKey, setter, authorization, arg, ret>>

\* The state of the readers of the rate-limit snapshot
readers == <<rpc, got>>

config == <<sdk, maxRetries, retryWaitMin, retryWaitMax, retryDelay>>

\* The client object and its key, and the function under check
others == <<client, apiKey, setter, arg, ret>>

----------------------------------------------------------------------------
(* Bounds of the model *)

MaxRetriesBound == 2        \* maxRetries ranges over 0..MaxRetriesBound

(* Program constants *)

DefaultRetryWaitMin == 1000
DefaultRetryWaitMax == 30000
DefaultRetryDelay == 1000
NodeJitterRange == 1000

----------------------------------------------------------------------------
(* The environment: what one attempt can come back with *)

\* 200 a success; 400, 401, 403, 408, 429, 500, 503 the codes the clients
\* name; 404 an unnamed 4xx; 501 an unnamed 5xx.
ErrorStatuses == {400, 401, 403, 404, 408, 429, 500, 501, 503}

RetryAfterHeaders == {"", "5"}

\* The X-RateLimit-Limit / -Remaining / -Reset headers of a response
NoRateLimitHeaders == [limit |-> "", remaining |-> "", reset |-> ""]

\* kind "timeout" / "network": the transport failed, there is no response.
\* json: the error body parses as JSON.  body: what a success carries:
\* raw bytes ("binary"), a JSON job descriptor ("job"), or JSON that says
\* success = false ("rejected").
TransportFailures ==
    { [kind |-> k, status |-> 0, json |-> FALSE, retryAfter |-> "", body |-> "none",
       rateLimit |-> NoRateLimitHeaders] :
        k \in {"timeout", "network"} }

ErrorResponses ==
    UNION { { [kind |-> "http", status |-> s, json |-> j, retryAfter |-> ra, body |-> "error",
                 rateLimit |-> NoRateLimitHeaders] :
                j \in BOOLEAN, ra \in (IF s = 429 THEN RetryAfterHeaders ELSE {""}) } :
            s \in ErrorStatuses }

SuccessResponses ==
    { [kind |-> "http", status |-> 200, json |-> FALSE, retryAfter |-> "", body |-> b,
       rateLimit |-> NoRateLimitHeaders] :
        b \in {"binary", "job", "rejected"} }

Responses == TransportFailures \cup ErrorResponses \cup SuccessResponses

\* What httpClient.Do returns once the request's context is cancelled: an
\* error wrapping context.Canceled, no response
CancelFailure ==
    [kind |-> "canceled", status |-> 0, json |-> FALSE, retryAfter |-> "", body |-> "none",
     rateLimit |-> NoRateLimitHeaders]

\* A few responses for the runs with several calls or further inputs: a
\* connection failure, a job descriptor, a 503 with and without a JSON body,
\* a 400 with a JSON body
FewResponses ==
    { r \in Responses :
        \/ r.kind = "network"
        \/ (r.status = 200 /\ r.body = "job")
        \/ r.status = 503
        \/ (r.status = 400 /\ r.json) }

\* Rate-limit headers a response can carry: none, a full set, a full set
\* with nothing remaining, all zero, and a limit alone
FullRateLimitHeaders == [limit |-> "100", remaining |-> "99", reset |-> "5"]

RateLimitHeaderSets ==
    { NoRateLimitHeaders,
      FullRateLimitHeaders,
      [limit |-> "60", remaining |-> "0", reset |-> "99"],
      [limit |-> "0", remaining |-> "0", reset |-> "0"],
      [limit |-> "100", remaining |-> "", reset |-> ""] }

\* Responses that differ in their rate-limit headers: a success with each
\* set of headers, a retried 503 without headers and with a full set, and a
\* connection failure
HeaderResponses ==
    { [r EXCEPT !.rateLimit = h] :
        r \in { q \in Responses : q.status = 200 /\ q.body = "job" }, h \in RateLimitHeaderSets }
    \cup { [r EXCEPT !.rateLimit = h] :
        r \in { q \in Responses : q.status = 503 /\ ~q.json },
        h \in {NoRateLimitHeaders, FullRateLimitHeaders} }
    \cup { r \in Responses : r.kind = "network" }

\* Draws of rand.Float64() / Math.random(), in hundredths: [0, 1) sampled
RandDraws == {0, 50, 99}

----------------------------------------------------------------------------
(* Errors *)

NoError == [type |-> "nil", status |-> 0, retryAfter |-> 0]

MkError(t, s, ra) == [type |-> t, status |-> s, retryAfter |-> ra]

\* The decimal numerals that occur in headers
NumeralValue ==
    [n \in {"0", "5", "60", "99", "100"} |->
        CASE n = "0" -> 0 [] n = "5" -> 5 [] n = "60" -> 60 [] n = "99" -> 99 [] n = "100" -> 100]

\* strconv.Atoi / strconv.ParseInt on a header value: the number, or an
\* error and 0
Atoi(s) == IF s \in DOMAIN NumeralValue THEN [ok |-> TRUE, val |-> NumeralValue[s]]
           ELSE [ok |-> FALSE, val |-> 0]

RECURSIVE Pow2(_)
Pow2(n) == IF n <= 0 THEN 1 ELSE 2 * Pow2(n - 1)

Min(a, b) == IF a < b THEN a ELSE b

----------------------------------------------------------------------------
(* Go: error classification and retry decision *)

\* errors.As(e, &target) for the error values doRequest builds.  It compares
\* the dynamic type of e with the target type and then follows Unwrap().
\* The typed errors embed *Error, so the Unwrap() they promote returns the
\* embedded Error's Err field: nil for errors built from a response, the
\* transport's own error for a NetworkError.  Neither is a screencraft type,
\* so only an error whose own type is the target matches.
ErrorsAs(e, target) == e.type = target

\* (e *Error) IsRetryable: 429, 503, 502, 504, 500
ErrorIsRetryable(e) == e.status \in {429, 503, 502, 504, 500}

\* IsRetryable(err)
GoIsRetryable(e) ==
    IF ErrorsAs(e, "Error") THEN ErrorIsRetryable(e)
    ELSE IF ErrorsAs(e, "RateLimitError") THEN TRUE
    ELSE IF ErrorsAs(e, "NetworkError") THEN TRUE
    ELSE IF ErrorsAs(e, "TimeoutError") THEN TRUE
    ELSE FALSE

\* GetRetryAfter(err)
GetRetryAfter(e) == IF ErrorsAs(e, "RateLimitError") THEN e.retryAfter ELSE 0

\* NewNetworkError(err): every transport failure, timeouts included
NewNetworkError == MkError("NetworkError", 0, 0)

\* Client.parseErrorResponse(resp).  A body that cannot be read or does not
\* parse as JSON gives a plain *Error before the switch on the status code.
parseErrorResponse(resp) ==
    IF ~resp.json THEN MkError("Error", resp.status, 0)
    ELSE CASE resp.status = 401 -> MkError("AuthenticationError", 401, 0)
           [] resp.status = 429 ->
                MkError("RateLimitError", 429,
                        IF Atoi(resp.retryAfter).ok THEN Atoi(resp.retryAfter).val * 1000 ELSE 0)
           [] resp.status = 400 -> MkError("ValidationError", 400, 0)
           [] resp.status \in {500, 502, 503, 504} -> MkError("ServerError", resp.status, 0)
           [] OTHER -> MkError("Error", resp.status, 0)

\* The error of a failed attempt: lines 243 and 255 of doRequest
GoAttemptError(resp) ==
    IF resp.kind # "http" THEN NewNetworkError ELSE parseErrorResponse(resp)

\* Variant of GoGivesUp: the last attempt is recognised one iteration late
GoGivesUp_LateCutoff(e, a, mr) == ~GoIsRetryable(e) \/ a > mr

\* `!IsRetryable(lastErr) || attempt == c.maxRetries`: return lastErr now
GoGivesUp(e, a, mr) == ~GoIsRetryable(e) \/ a = mr

\* Variant of calculateBackoff: the exponential base is not capped
calculateBackoff_NoCap(a, e, r) ==
    IF GetRetryAfter(e) > 0 THEN GetRetryAfter(e)
    ELSE LET backoff == retryWaitMin * Pow2(a - 1)
         IN  backoff + (backoff * r) \div 400

\* Variant of calculateBackoff: the jitter ranges over the whole backoff
calculateBackoff_FullJitter(a, e, r) ==
    IF GetRetryAfter(e) > 0 THEN GetRetryAfter(e)
    ELSE LET backoff == Min(retryWaitMin * Pow2(a - 1), retryWaitMax)
         IN  backoff + (backoff * r) \div 100

\* Client.calculateBackoff(attempt, lastErr); r is the draw of rand.Float64()
\* in hundredths.  time.Duration(backoff + jitter) truncates.
calculateBackoff(a, e, r) ==
    IF GetRetryAfter(e) > 0 THEN GetRetryAfter(e)
    ELSE LET backoff == Min(retryWaitMin * Pow2(a - 1), retryWaitMax)
         IN  backoff + (backoff * r) \div 400

\* ctx.Err() of a cancelled context
CtxErr == MkError("context.Canceled", 0, 0)

\* Variant of SelectCase: with the context alive no case ever gets ready
SelectCase_Blocked(ctxState) == IF ctxState = "cancelled" THEN "ctx.Done" ELSE "blocked"

\* Variant of SelectCase: the wait is a plain sleep
SelectCase_TimerOnly(ctxState) == "time.After"

\* The `select` between ctx.Done() and time.After(waitTime) in doRequest:
\* which case ends the wait.  The timer has not fired while the call waits.
SelectCase(ctxState) == IF ctxState = "cancelled" THEN "ctx.Done" ELSE "time.After"

\* Variant of NilRateLimit: New stores a zero-valued RateLimitInfo
NilRateLimit_ZeroValue == [ptr |-> "set", limit |-> 0, remaining |-> 0, reset |-> 0]

\* Client.lastRateLimit after New: a nil pointer
NilRateLimit == [ptr |-> "nil", limit |-> 0, remaining |-> 0, reset |-> 0]

\* &RateLimitInfo{Limit: l, Remaining: rem, Reset: time.Unix(rst, 0)}
RateLimitInfo(l, rem, rst) == [ptr |-> "set", limit |-> l, remaining |-> rem, reset |-> rst]

\* Variant of parseRateLimitHeaders: the fields of the stored snapshot are
\* updated one by one, each when its header is positive
parseRateLimitHeaders_Merge(resp, old) ==
    LET limit == Atoi(resp.rateLimit.limit).val
        remaining == Atoi(resp.rateLimit.remaining).val
        resetUnix == Atoi(resp.rateLimit.reset).val
    IN  IF limit > 0 \/ remaining > 0 \/ resetUnix > 0
        THEN RateLimitInfo(IF limit > 0 THEN limit ELSE old.limit,
                           IF remaining > 0 THEN remaining ELSE old.remaining,
                           IF resetUnix > 0 THEN resetUnix ELSE old.reset)
        ELSE old

\* Variant of parseRateLimitHeaders: every response replaces the snapshot
parseRateLimitHeaders_Always(resp, old) ==
    RateLimitInfo(Atoi(resp.rateLimit.limit).val, Atoi(resp.rateLimit.remaining).val,
                  Atoi(resp.rateLimit.reset).val)

\* Client.parseRateLimitHeaders(resp): the value of c.lastRateLimit after
\* it, old being the value before
parseRateLimitHeaders(resp, old) ==
    LET limit == Atoi(resp.rateLimit.limit).val
        remaining == Atoi(resp.rateLimit.remaining).val
        resetUnix == Atoi(resp.rateLimit.reset).val
    IN  IF limit > 0 \/ remaining > 0 \/ resetUnix > 0
        THEN RateLimitInfo(limit, remaining, resetUnix)
        ELSE old

\* url.Parse / new URL(...) succeed on these strings of the model
WellFormedURLs == {"https://example.com", "https://yoursite.com/webhook"}

\* Variant of GoBeforeLoop: the key is not looked at
GoBeforeLoop_NoKeyCheck(k, retries) ==
    IF ~(0 <= retries) THEN MkError("nil pointer dereference", 0, 0)
    ELSE NoError

\* doRequest up to its first request: the check of the key, then the loop
\* header `attempt <= c.maxRetries` at attempt 0.  When the loop body never
\* runs doRequest returns `nil, lastErr` with lastErr still nil, and the
\* caller's `defer resp.Body.Close()` dereferences the nil response.
GoBeforeLoop(k, retries) ==
    IF k = "" THEN MkError("ErrMissingAPIKey", 0, 0)
    ELSE IF ~(0 <= retries) THEN MkError("nil pointer dereference", 0, 0)
    ELSE NoError

\* ValidateScreenshotOptions / ValidatePDFOptions followed, for the Async
\* operations, by the webhook check of ScreenshotAsync / PDFAsync.  A nil
\* opts is reported like an empty URL.  ErrMissingURL is a sentinel made by
\* errors.New; NewValidationError(...).Error is the *Error embedded in the
\* ValidationError.  The quality, scale and viewport checks are left out:
\* the options of the model keep them valid.
GoValidate(o, options) ==
    IF options.url = "" THEN MkError("ErrMissingURL", 0, 0)
    ELSE IF o = "async" /\ options.webhook \in {"absent", ""} THEN MkError("Error", 400, 0)
    ELSE NoError

\* validateUrl(options.url) and, for the Async operations,
\* validateWebhook(options.webhook): `new URL(...)` throws, also on the
\* TypeError of reading .url of an absent webhook, and a plain Error is
\* thrown in its place.
NodeValidate(o, options) ==
    IF options.url \notin WellFormedURLs THEN MkError("JsError", 0, 0)
    ELSE IF o = "async" /\ options.webhook \notin WellFormedURLs THEN MkError("JsError", 0, 0)
    ELSE NoError

\* Variant of GoParseResult: the rejected body is returned along with the error
GoParseResult_KeepsResult(o, resp) ==
    CASE resp.body = "rejected" -> [result |-> resp.body, err |-> MkError("Error", resp.status, 0)]
      [] o = "async" /\ resp.body = "binary" ->
            [result |-> "none", err |-> MkError("WrappedError", 0, 0)]
      [] OTHER -> [result |-> resp.body, err |-> NoError]

\* What the caller gets from a response below 400.  Screenshot / PDF
\* (parseScreenshotResponse, parsePDFResponse): a JSON body saying
\* success = false is an *Error, any other body a result.  ScreenshotAsync /
\* PDFAsync: the body must be JSON; raw bytes fail json.Unmarshal and give a
\* wrapped error, success = false an *Error, otherwise the job id.
GoParseResult(o, resp) ==
    CASE resp.body = "rejected" -> [result |-> "none", err |-> MkError("Error", resp.status, 0)]
      [] o = "async" /\ resp.body = "binary" ->
            [result |-> "none", err |-> MkError("WrappedError", 0, 0)]
      [] OTHER -> [result |-> resp.body, err |-> NoError]

----------------------------------------------------------------------------
(* Node: retry decision, delay and error classification *)

\* Variant of shouldRetry: 408 is exempted from the 4xx rule like 429
shouldRetry_Retries408(resp, a, mr) ==
    IF a >= mr THEN FALSE
    ELSE IF resp.kind = "http" /\ resp.status >= 400 /\ resp.status < 500
            /\ resp.status \notin {408, 429}
         THEN FALSE
    ELSE \/ resp.kind # "http"
         \/ resp.kind = "timeout"
         \/ (resp.kind = "http" /\ resp.status >= 500)
         \/ (resp.kind = "http" /\ resp.status \in {408, 429})

\* ScreenCraftClient.shouldRetry(error, attempt) on the AxiosError of a
\* failed attempt.  status is undefined when there is no response.
shouldRetry(resp, a, mr) ==
    IF a >= mr THEN FALSE
    ELSE IF resp.kind = "http" /\ resp.status >= 400 /\ resp.status < 500 /\ resp.status # 429
         THEN FALSE
    ELSE \/ resp.kind # "http"                          \* !error.response
         \/ resp.kind = "timeout"                       \* error.code === 'ECONNABORTED'
         \/ (resp.kind = "http" /\ resp.status >= 500)
         \/ (resp.kind = "http" /\ resp.status = 429)

\* ScreenCraftClient.calculateRetryDelay(attempt); r is the draw of
\* Math.random() in hundredths.
\* Variant of calculateRetryDelay: the jitter ranges over two seconds
calculateRetryDelay_WideJitter(a, r) ==
    retryDelay * Pow2(a) + (r * 2 * NodeJitterRange) \div 100

calculateRetryDelay(a, r) ==
    retryDelay * Pow2(a) + (r * NodeJitterRange) \div 100

\* createErrorFromResponse(statusCode, ...).  The constructors fix the
\* statusCode of some classes; 0 stands for undefined.
createErrorFromResponse(status) ==
    CASE status \in {401, 403} -> MkError("AuthenticationError", 401, 0)
      [] status = 400 -> MkError("ValidationError", 400, 0)
      [] status = 429 -> MkError("RateLimitError", 429, 0)
      [] status = 408 -> MkError("TimeoutError", 408, 0)
      [] status \in {500, 502, 503, 504} -> MkError("ServerError", status, 0)
      [] OTHER -> IF status >= 400 /\ status < 500
                  THEN MkError("CaptureError", status, 0)
                  ELSE MkError("UnknownError", 0, 0)

\* ScreenCraftClient.handleError(error) on an AxiosError
handleError(resp) ==
    IF resp.kind # "http" THEN MkError("NetworkError", 0, 0)
    ELSE createErrorFromResponse(resp.status)

----------------------------------------------------------------------------------------------------------------------------------------------------
(* Initial state: a constructed client and calls not yet made *)

Calls == DOMAIN pc

Readers == DOMAIN rpc

\* WithRetryWait(min, max): the defaults, a cap the second retry reaches, and
\* a cap equal to the first delay
GoRetryWaits == { <<DefaultRetryWaitMin, DefaultRetryWaitMax>>,
                  <<DefaultRetryWaitMin, DefaultRetryWaitMin + 500>>,
                  <<DefaultRetryWaitMin, DefaultRetryWaitMin>> }

\* The options of a call before it is made
NoOptions == [url |-> "", webhook |-> "absent"]

\* The API keys a client is given; "" is the empty key
Keys == {"", "key-A", "key-B"}

\* No request issued yet
NoHeader == [scheme |-> "none", key |-> ""]

\* "Bearer " + c.apiKey / `Bearer ${this.config.apiKey}`
Bearer(k) == [scheme |-> "Bearer", key |-> k]

\* Nobody is inside SetAPIKey
NoSetter == [pc |-> "idle", key |-> ""]

\* What a read of c.apiKey by doRequest may yield.  doRequest reads the
\* field without holding mu, so a read while SetAPIKey is storing is a data
\* race: it yields the old string, the new one, or the pointer of one with
\* the length of the other.
ReadAPIKey ==
    IF setter.pc = "writing" /\ setter.key # apiKey
    THEN {apiKey, setter.key, "torn"}
    ELSE {apiKey}

InitCalls(n) ==
    /\ op = [c \in 1..n |-> "none"]
    /\ pc = [c \in 1..n |-> "idle"]
    /\ attempt = [c \in 1..n |-> 0]
    /\ lastErr = [c \in 1..n |-> NoError]
    /\ wait = [c \in 1..n |-> 0]
    /\ history = [c \in 1..n |-> << >>]
    /\ requests = [c \in 1..n |-> 0]
    /\ result = [c \in 1..n |-> "none"]
    /\ err = [c \in 1..n |-> NoError]
    /\ opts = [c \in 1..n |-> NoOptions]
    /\ authorization = [c \in 1..n |-> NoHeader]
    /\ ctx = [c \in 1..n |-> "active"]

InitReaders(n) ==
    /\ rpc = [rd \in 1..n |-> "idle"]
    /\ got = [rd \in 1..n |-> NilRateLimit]

\* No argument chosen / the function has not returned
NoValue == [t |-> "none"]

\* The function returned v
Returned(v) == [t |-> "returned", v |-> v]

\* A client built with a key; nobody calls SetAPIKey
InitClient ==
    /\ client = "built"
    /\ apiKey = "key-A"
    /\ setter = NoSetter

\* No function is checked on its own
InitPure ==
    /\ arg = NoValue
    /\ ret = NoValue

InitConfig ==
    /\ sdk \in {"go", "node"}
    /\ maxRetries \in 0..MaxRetriesBound
    /\ \E w \in GoRetryWaits :
         /\ retryWaitMin = w[1]
         /\ retryWaitMax = IF sdk = "go" THEN w[2] ELSE DefaultRetryWaitMax
    /\ retryDelay = DefaultRetryDelay
    /\ lastRateLimit = NilRateLimit
    /\ InitClient
    /\ InitPure

Init == InitConfig /\ InitCalls(1) /\ InitReaders(0)

----------------------------------------------------------------------------
(* Actions *)

Finish(c, res, e) ==
    /\ pc' = [pc EXCEPT ![c] = "done"]
    /\ result' = [result EXCEPT ![c] = res]
    /\ err' = [err EXCEPT ![c] = e]

\* Options that pass the validation of both clients
ValidInputs ==
    { [op |-> "sync", opts |-> [url |-> "https://example.com", webhook |-> "absent"]],
      [op |-> "async",
       opts |-> [url |-> "https://example.com", webhook |-> "https://yoursite.com/webhook"]] }

\* Options with a missing or malformed url or webhook url among them
AnyInputs ==
    { [op |-> "sync", opts |-> [url |-> u, webhook |-> "absent"]] :
        u \in {"", "invalid-url", "https://example.com"} }
    \cup { [op |-> "async", opts |-> [url |-> u, webhook |-> w]] :
             u \in {"", "invalid-url", "https://example.com"},
             w \in {"absent", "", "invalid-webhook-url", "https://yoursite.com/webhook"} }

\* The caller invokes Screenshot / PDF / ScreenshotAsync / PDFAsync (go) or
\* screenshot / pdf / screenshotAsync / pdfAsync (node) with one of Inputs:
\* the options are validated and, when they pass, the first request goes out.
StartWith(c, Inputs) ==
    /\ pc[c] = "idle"
    /\ client = "built"
    /\ \E in \in Inputs, k \in ReadAPIKey, h \in ReadAPIKey :
         /\ op' = [op EXCEPT ![c] = in.op]
         /\ opts' = [opts EXCEPT ![c] = in.opts]
         /\ LET e == IF sdk = "go" THEN GoValidate(in.op, in.opts)
                     ELSE NodeValidate(in.op, in.opts)
                d == IF sdk = "go" THEN GoBeforeLoop(k, maxRetries) ELSE NoError
            IN  IF e # NoError \/ d # NoError
                THEN /\ Finish(c, "none", IF e # NoError THEN e ELSE d)
                     /\ UNCHANGED <<requests, authorization>>
                ELSE /\ pc' = [pc EXCEPT ![c] = "inflight"]
                     /\ requests' = [requests EXCEPT ![c] = 1]
                     /\ authorization' = [authorization EXCEPT ![c] = Bearer(h)]
                     /\ UNCHANGED <<result, err>>
    /\ UNCHANGED <<config, attempt, lastErr, wait, history, ctx, lastRateLimit, readers, others>>

Start(c) == StartWith(c, ValidInputs)

\* Variant of NextAttempt: one counter for all calls of the client
NextAttempt_Shared(att, c) == [d \in DOMAIN att |-> att[d] + 1]

\* `attempt++` of the loop of doRequest, `attempt + 1` of the recursive call
\* of executeWithRetry: the counter is a local of the call
NextAttempt(att, c) == [att EXCEPT ![c] = @ + 1]

\* `lastErr = NewNetworkError(err)`, `lastErr = c.parseErrorResponse(resp)`
RecordError(old, e) == e

\* go: httpClient.Do returns one of R, or the context's error once the
\* context is cancelled; the rest of the loop body of doRequest runs, and on
\* `continue` the loop header and the backoff of the next iteration.
\* parseRateLimitHeaders takes c.mu.Lock() and waits for the readers that
\* hold the read lock.
GoReceiveFrom(c, R) ==
    /\ sdk = "go"
    /\ pc[c] = "inflight"
    /\ \E resp \in (IF ctx[c] = "cancelled" THEN {CancelFailure} ELSE R), r \in RandDraws :
         /\ history' = [history EXCEPT ![c] = Append(@, resp)]
         /\ IF resp.kind = "http"
            THEN /\ \A rd \in Readers : rpc[rd] # "locked"
                 /\ setter.pc = "idle"
                 /\ lastRateLimit' = parseRateLimitHeaders(resp, lastRateLimit)
            ELSE UNCHANGED lastRateLimit
         /\ IF resp.kind = "http" /\ resp.status < 400
            THEN /\ Finish(c, GoParseResult(op[c], resp).result, GoParseResult(op[c], resp).err)
                 /\ UNCHANGED <<attempt, lastErr, wait>>
            ELSE LET e == RecordError(lastErr[c], GoAttemptError(resp)) IN
                 /\ lastErr' = [lastErr EXCEPT ![c] = e]
                 /\ IF GoGivesUp(e, attempt[c], maxRetries)
                    THEN /\ Finish(c, "none", e)
                         /\ UNCHANGED <<attempt, wait>>
                    ELSE /\ attempt' = NextAttempt(attempt, c)
                         /\ IF attempt'[c] <= maxRetries
                            THEN /\ wait' = [wait EXCEPT ![c] =
                                               calculateBackoff(attempt'[c], e, r)]
                                 /\ pc' = [pc EXCEPT ![c] = "waiting"]
                                 /\ UNCHANGED <<result, err>>
                            ELSE /\ Finish(c, "none", e)      \* `return nil, lastErr` after the loop
                                 /\ UNCHANGED wait
    /\ UNCHANGED <<config, op, requests, opts, ctx, readers, others, authorization>>

GoReceive(c) == GoReceiveFrom(c, Responses)

\* go: time.After(waitTime) fires and the next request goes out
GoRetry(c) ==
    /\ sdk = "go"
    /\ pc[c] = "waiting"
    /\ SelectCase(ctx[c]) = "time.After"
    /\ pc' = [pc EXCEPT ![c] = "inflight"]
    /\ requests' = [requests EXCEPT ![c] = @ + 1]
    /\ \E h \in ReadAPIKey : authorization' = [authorization EXCEPT ![c] = Bearer(h)]
    /\ UNCHANGED <<config, op, attempt, lastErr, wait, history, result, err,
                   opts, ctx, lastRateLimit, readers, others>>

\* go: the wait ends on ctx.Done(): `return nil, ctx.Err()`
GoAbortWait(c) ==
    /\ sdk = "go"
    /\ pc[c] = "waiting"
    /\ SelectCase(ctx[c]) = "ctx.Done"
    /\ Finish(c, "none", CtxErr)
    /\ UNCHANGED <<config, op, attempt, lastErr, wait, history, requests,
                   opts, ctx, lastRateLimit, readers, others, authorization>>

\* go: the caller cancels the context it passed to a call that has not
\* returned (possibly before making the call)
Cancel(c) ==
    /\ sdk = "go"
    /\ pc[c] # "done"
    /\ ctx[c] = "active"
    /\ ctx' = [ctx EXCEPT ![c] = "cancelled"]
    /\ UNCHANGED <<config, op, pc, attempt, lastErr, wait, history, requests, result, err,
                   opts, lastRateLimit, readers, others, authorization>>

\* go: GetRateLimitInfo takes the read lock (the write lock is never held
\* between two steps)
ReaderRLock(rd) ==
    /\ sdk = "go"
    /\ rpc[rd] \in {"idle", "returned"}
    /\ rpc' = [rpc EXCEPT ![rd] = "locked"]
    /\ UNCHANGED <<config, op, pc, attempt, lastErr, wait, history, requests, result, err,
                   opts, ctx, lastRateLimit, got, others, authorization>>

\* go: GetRateLimitInfo returns c.lastRateLimit and releases the read lock
ReaderReturn(rd) ==
    /\ sdk = "go"
    /\ rpc[rd] = "locked"
    /\ got' = [got EXCEPT ![rd] = lastRateLimit]
    /\ rpc' = [rpc EXCEPT ![rd] = "returned"]
    /\ UNCHANGED <<config, op, pc, attempt, lastErr, wait, history, requests, result, err,
                   opts, ctx, lastRateLimit, others, authorization>>

\* node: `await fn()` settles with one of R; the catch block of
\* executeWithRetry runs up to the sleep.  lastErr records the caught error
\* as handleError classifies it.
NodeReceiveFrom(c, R) ==
    /\ sdk = "node"
    /\ pc[c] = "inflight"
    /\ \E resp \in R, r \in RandDraws :
         /\ history' = [history EXCEPT ![c] = Append(@, resp)]
         /\ IF resp.kind = "http" /\ resp.status >= 200 /\ resp.status < 300
            THEN /\ Finish(c, resp.body, NoError)
                 /\ UNCHANGED <<lastErr, wait>>
            ELSE /\ lastErr' = [lastErr EXCEPT ![c] = handleError(resp)]
                 /\ IF shouldRetry(resp, attempt[c], maxRetries) /\ attempt[c] < maxRetries
                    THEN /\ wait' = [wait EXCEPT ![c] = calculateRetryDelay(attempt[c], r)]
                         /\ pc' = [pc EXCEPT ![c] = "waiting"]
                         /\ UNCHANGED <<result, err>>
                    ELSE /\ Finish(c, "none", handleError(resp))
                         /\ UNCHANGED wait
    /\ UNCHANGED <<config, op, attempt, requests, opts, ctx, lastRateLimit, readers, others, authorization>>

NodeReceive(c) == NodeReceiveFrom(c, Responses)

\* node: the sleep resolves; executeWithRetry(fn, attempt + 1) calls fn again
NodeRetry(c) ==
    /\ sdk = "node"
    /\ pc[c] = "waiting"
    /\ pc' = [pc EXCEPT ![c] = "inflight"]
    /\ attempt' = NextAttempt(attempt, c)
    /\ requests' = [requests EXCEPT ![c] = @ + 1]
    /\ UNCHANGED <<config, op, lastErr, wait, history, result, err,
                   opts, ctx, lastRateLimit, readers, others, authorization>>

Next ==
    \/ \E c \in Calls : Start(c)
    \/ \E c \in Calls : GoReceive(c)
    \/ \E c \in Calls : GoRetry(c)
    \/ \E c \in Calls : NodeReceive(c)
    \/ \E c \in Calls : NodeRetry(c)

Spec == Init /\ [][Next]_vars

----------------------------------------------------------------------------
(* Cancellation: one call of the go client whose context the caller may
   cancel at any moment before the call returns.  The node client takes no
   cancellation token. *)

InitCancel == InitConfig /\ sdk = "go" /\ InitCalls(1) /\ InitReaders(0)

GoReceiveFew(c) == GoReceiveFrom(c, FewResponses)

NextCancel ==
    \/ \E c \in Calls : Start(c)
    \/ \E c \in Calls : GoReceiveFew(c)
    \/ \E c \in Calls : GoRetry(c)
    \/ \E c \in Calls : GoAbortWait(c)
    \/ \E c \in Calls : Cancel(c)

SpecCancel == InitCancel /\ [][NextCancel]_vars

\* The goroutine of the call keeps running: httpClient.Do returns (the
\* client has a timeout), a timer fires, a select with a ready case proceeds.
\* Nothing obliges the caller to make the call or to cancel.
FairSpecCancel ==
    /\ SpecCancel
    /\ WF_vars(\E c \in Calls : GoReceiveFew(c))
    /\ WF_vars(\E c \in Calls : GoRetry(c))
    /\ WF_vars(\E c \in Calls : GoAbortWait(c))

----------------------------------------------------------------------------
(* Validation: calls of either client with arbitrary options *)

StartAny(c) == StartWith(c, AnyInputs)

NodeReceiveFew(c) == NodeReceiveFrom(c, FewResponses)

NextValidate ==
    \/ \E c \in Calls : StartAny(c)
    \/ \E c \in Calls : GoReceiveFew(c)
    \/ \E c \in Calls : GoRetry(c)
    \/ \E c \in Calls : NodeReceiveFew(c)
    \/ \E c \in Calls : NodeRetry(c)

SpecValidate == Init /\ [][NextValidate]_vars

----------------------------------------------------------------------------
(* The rate-limit snapshot: two concurrent calls of the go client and a
   reader that calls GetRateLimitInfo again and again *)

InitSnapshot ==
    /\ InitConfig /\ sdk = "go" /\ maxRetries <= 1 /\ retryWaitMax = DefaultRetryWaitMax
    /\ InitCalls(2) /\ InitReaders(1)

StartSync(c) == StartWith(c, { in \in ValidInputs : in.op = "sync" })

GoReceiveHeaders(c) == GoReceiveFrom(c, HeaderResponses)

NextSnapshot ==
    \/ \E c \in Calls : StartSync(c)
    \/ \E c \in Calls : GoReceiveHeaders(c)
    \/ \E c \in Calls : GoRetry(c)
    \/ \E rd \in Readers : ReaderRLock(rd)
    \/ \E rd \in Readers : ReaderReturn(rd)

SpecSnapshot == InitSnapshot /\ [][NextSnapshot]_vars

----------------------------------------------------------------------------
(* Concurrency: two calls in flight on one client, of either kind *)

InitConcurrent ==
    /\ InitConfig /\ maxRetries <= 2 /\ retryWaitMax = DefaultRetryWaitMax
    /\ InitCalls(2) /\ InitReaders(0)

NextConcurrent ==
    \/ \E c \in Calls : Start(c)
    \/ \E c \in Calls : GoReceiveFew(c)
    \/ \E c \in Calls : GoRetry(c)
    \/ \E c \in Calls : NodeReceiveFew(c)
    \/ \E c \in Calls : NodeRetry(c)

SpecConcurrent == InitConcurrent /\ [][NextConcurrent]_vars

----------------------------------------------------------------------------
(* Responses below 400: one call of either client answered by a 200 or a
   304 with each kind of body, or by a connection failure *)

Below400Responses ==
    SuccessResponses
    \cup { [r EXCEPT !.status = 304] : r \in SuccessResponses }
    \cup { r \in Responses : r.kind = "network" }

GoReceiveBelow400(c) == GoReceiveFrom(c, Below400Responses)

NodeReceiveBelow400(c) == NodeReceiveFrom(c, Below400Responses)

NextBelow400 ==
    \/ \E c \in Calls : Start(c)
    \/ \E c \in Calls : GoReceiveBelow400(c)
    \/ \E c \in Calls : GoRetry(c)
    \/ \E c \in Calls : NodeReceiveBelow400(c)
    \/ \E c \in Calls : NodeRetry(c)

SpecBelow400 == Init /\ [][NextBelow400]_vars

----------------------------------------------------------------------------
(* Vocabulary of the properties *)

Last(h) == h[Len(h)]

IsSuccess(resp) == resp.kind = "http" /\ resp.status < 400

IsFailure(resp) == ~IsSuccess(resp)

\* The class the client gives the failure of an attempt
ClassOf(resp) == IF sdk = "go" THEN GoAttemptError(resp).type ELSE handleError(resp).type

\* The class of a failure by the table of the specification (section 4.1,
\* step 5, and section 7): by transport failure kind or status code
TableClass(resp) ==
    CASE resp.kind = "timeout" -> "Timeout"
      [] resp.kind = "network" -> "Network"
      [] resp.status = 400 -> "Validation"
      [] resp.status \in {401, 403} -> "Authentication"
      [] resp.status = 429 -> "RateLimit"
      [] resp.status = 408 -> "Timeout"
      [] resp.status \in {500, 502, 503, 504} -> "Server"
      [] resp.status >= 400 /\ resp.status < 500 -> "Capture"
      [] OTHER -> "Unknown"

\* The classes section 7 names as retried
RetryableClasses == {"RateLimit", "Timeout", "Network", "Server"}

\* The call went on after the i-th response: a retry is pending or was made
WentOn(c, i) == i < Len(history[c]) \/ pc[c] \in {"waiting", "inflight"}

\* The call ended on the i-th response, after exactly i requests
EndedAt(c, i) == i = Len(history[c]) /\ pc[c] = "done" /\ requests[c] = i

IsServerFailure(resp) == resp.kind = "http" /\ resp.status \in {500, 503}

\* The exponential base of the k-th retry
BackoffBase(k) == Min(retryWaitMax, retryWaitMin * Pow2(k - 1))

----------------------------------------------------------------------------
(* C1 - C10 *)

\* C1: after every failed attempt (transport failure or status >= 400) a
\* further attempt is made if and only if retries remain and the class of
\* the failure is RateLimit (429), Timeout (408 or transport timeout),
\* Network (other transport failure) or Server (500/502/503/504).  Stated
\* for the failures the claim's table names; a 408 response is the subject
\* of C7 and is left out here, as is the unnamed 501.
C1_RetryIffRetryableClass ==
    \A c \in Calls : \A i \in 1..Len(history[c]) :
        (IsFailure(history[c][i]) /\ history[c][i].status \notin {408, 501}) =>
            (WentOn(c, i) <=> (i - 1 < maxRetries /\ TableClass(history[c][i]) \in RetryableClasses))

\* C2: the attempt counter never exceeds maxRetries, a call issues at most
\* maxRetries + 1 requests, a retry is pending only while fewer than
\* maxRetries + 1 requests were issued, and at attempt >= maxRetries the
\* retry decision is negative for every error.
C2_AttemptBound ==
    \A c \in Calls :
        /\ attempt[c] <= maxRetries
        /\ requests[c] <= maxRetries + 1
        /\ (pc[c] = "waiting" => requests[c] <= maxRetries)
        /\ \A resp \in Responses : \A a \in maxRetries..(maxRetries + 1) :
              IsFailure(resp) => ~shouldRetry(resp, a, maxRetries)

C2_Witness ==
    \E c \in Calls :
        /\ pc[c] = "done" /\ err[c] # NoError
        /\ maxRetries >= 2 /\ attempt[c] = maxRetries /\ requests[c] = maxRetries + 1

\* C3: a finished call has exactly one outcome: a result and no error, or
\* an error and no result; a call that has not finished has neither yet.
C3_ExactlyOneOutcome ==
    \A c \in Calls :
        /\ pc[c] = "done" => ((result[c] # "none") # (err[c] # NoError))
        /\ pc[c] # "done" => (result[c] = "none" /\ err[c] = NoError)

C3_Witness ==
    \E c \in Calls :
        /\ pc[c] = "done" /\ requests[c] >= 2
        /\ Last(history[c]).body = "rejected"
        /\ result[c] = "none" /\ err[c] # NoError

\* C4: after k consecutive server failures (500 / 503), k <= maxRetries, the
\* call makes attempt k + 1; and when that attempt succeeds (a 200 whose body
\* is what the operation expects) the call returns the success result after
\* exactly k + 1 requests.
C4_RetriesThenSuccess ==
    \A c \in Calls :
        LET h == history[c]
            n == Len(h)
        IN  /\ (n >= 1 /\ n <= maxRetries /\ \A i \in 1..n : IsServerFailure(h[i]))
                   => pc[c] # "done"
            /\ (n >= 2 /\ pc[c] = "done" /\ Last(h).status = 200
                   /\ Last(h).body \in (IF op[c] = "sync" THEN {"binary", "job"} ELSE {"job"})
                   /\ \A i \in 1..(n - 1) : IsServerFailure(h[i]))
                   => (result[c] = Last(h).body /\ err[c] = NoError /\ requests[c] = n)

\* C5: a call whose every response is a 500 fails with a Server error after
\* exactly maxRetries + 1 attempts (one attempt when maxRetries = 0).
C5_AllServerErrors ==
    \A c \in Calls :
        (pc[c] = "done" /\ Len(history[c]) >= 1
            /\ \A i \in 1..Len(history[c]) : history[c][i].status = 500)
        => (err[c].type = "ServerError" /\ result[c] = "none" /\ requests[c] = maxRetries + 1)

\* C6: a call whose first response has status 400 ends on that response with
\* a Validation error after one request, whatever maxRetries is.
C6_BadRequestFailsAtOnce ==
    \A c \in Calls :
        (Len(history[c]) >= 1 /\ history[c][1].status = 400)
        => (EndedAt(c, 1) /\ err[c].type = "ValidationError")

C8_AuthFailureEndsCall ==
    \A c \in Calls : \A i \in 1..Len(history[c]) :
        history[c][i].status \in {401, 403} =>
            (EndedAt(c, i) /\ err[c].type = "AuthenticationError")

\* C9: while a call waits after a 429 that carried Retry-After: 5, the wait
\* is exactly 5 seconds.
C9_RetryAfterVerbatim ==
    \A c \in Calls :
        (pc[c] = "waiting" /\ Last(history[c]).status = 429 /\ Last(history[c]).retryAfter = "5")
        => wait[c] = 5000

\* C10 as stated: when the last response carried no Retry-After, the wait
\* before the k-th retry is b + j with b = min(retryWaitMax, min * 2^(k-1))
\* and 0 <= j <= b / 4, where min is the configured first delay
\* (retryWaitMin, in the node client retryDelay).
C10_BackoffFormula ==
    \A c \in Calls :
        (pc[c] = "waiting" /\ Last(history[c]).retryAfter = "")
        => LET k == Len(history[c])
               b == Min(retryWaitMax, (IF sdk = "go" THEN retryWaitMin ELSE retryDelay) * Pow2(k - 1))
           IN  /\ b <= wait[c]
               /\ 4 * (wait[c] - b) <= b

\* C10 as amended: in the go client, when the last error carries no
\* retryAfter, the wait before the k-th retry is b + j with
\* b = min(retryWaitMax, retryWaitMin * 2^(k-1)) and 0 <= j <= b / 4, so the
\* first wait lies in [retryWaitMin, 1.25 retryWaitMin] and no wait exceeds
\* 1.25 retryWaitMax; in the node client the wait before the k-th retry is
\* retryDelay * 2^(k-1) + j with 0 <= j < 1000 ms and there is no cap.
C10_BackoffPerClient ==
    \A c \in Calls :
        pc[c] = "waiting" =>
            LET k == Len(history[c]) IN
            /\ (sdk = "go" /\ GetRetryAfter(lastErr[c]) = 0) =>
                  /\ BackoffBase(k) <= wait[c]
                  /\ 4 * (wait[c] - BackoffBase(k)) <= BackoffBase(k)
                  /\ 4 * wait[c] <= 5 * retryWaitMax
                  /\ (k = 1 => (retryWaitMin <= wait[c] /\ 4 * wait[c] <= 5 * retryWaitMin))
            /\ sdk = "node" =>
                  /\ retryDelay * Pow2(k - 1) <= wait[c]
                  /\ wait[c] < retryDelay * Pow2(k - 1) + NodeJitterRange

C10_Witness ==
    \E c \in Calls :
        /\ sdk = "go" /\ pc[c] = "waiting" /\ GetRetryAfter(lastErr[c]) = 0
        /\ Len(history[c]) = 2
        /\ retryWaitMin * 2 > retryWaitMax
        /\ wait[c] > retryWaitMax

----------------------------------------------------------------------------
(* C11 - C20 *)

\* The call has seen nothing but 500 / 503 responses up to now
OnlyServerFailures(h) == \A i \in 1..Len(h) : IsServerFailure(h[i])

\* A step in which call c, having waited before, computes its next wait
NextWaitStep(c) ==
    /\ pc[c] = "inflight" /\ pc'[c] = "waiting"
    /\ wait[c] > 0
    /\ OnlyServerFailures(history'[c])

\* C11 as stated: within a call that retries on Server errors, every wait
\* is at least as long as the wait before it, whatever the jitter, also
\* once the exponential base has reached retryWaitMax.
C11_WaitsNonDecreasing ==
    [][\A c \in Calls : NextWaitStep(c) => wait'[c] >= wait[c]]_vars

\* C11 as amended: within a call that retries on Server errors, a wait is
\* never shorter than the exponential base of the wait before it (four
\* fifths of that wait at least), and it is at least as long as the wait
\* before it whenever that wait's base is at most four fifths of
\* retryWaitMax, that is while doubling has not yet met the cap.
C11_WaitsNonDecreasingBelowCap ==
    [][\A c \in Calls : NextWaitStep(c) =>
          /\ wait'[c] >= BackoffBase(Len(history[c]))
          /\ 5 * wait'[c] >= 4 * wait[c]
          /\ (5 * BackoffBase(Len(history[c])) <= 4 * retryWaitMax => wait'[c] >= wait[c])]_vars

\* The go client waits a second time, at the capped base without jitter,
\* after the first wait was already at the cap
C11_Witness ==
    \E c \in Calls :
        /\ sdk = "go" /\ pc[c] = "waiting"
        /\ Len(history[c]) = 2 /\ OnlyServerFailures(history[c])
        /\ BackoffBase(1) = retryWaitMax
        /\ wait[c] = retryWaitMax

\* The call waits for a retry and its context is cancelled
CancelledInWait(c) == pc[c] = "waiting" /\ ctx[c] = "cancelled"

\* C12: when the context of a call is cancelled while the call waits
\* between a failed attempt and its retry, the call issues no further
\* request, it returns, and the error it returns is the context's
\* cancellation error.
C12_CancelDuringWait ==
    /\ [][\A c \in Calls : CancelledInWait(c) =>
              /\ requests'[c] = requests[c]
              /\ pc'[c] \in {"waiting", "done"}
              /\ (pc'[c] = "done" => err'[c] = CtxErr)]_vars
    /\ \A c \in {1} : CancelledInWait(c) ~> (pc[c] = "done" /\ err[c] = CtxErr)

\* The call was cancelled during the wait after its first attempt, a real
\* failure, and returned the cancellation error without a second request
C12_Witness ==
    \E c \in Calls :
        /\ pc[c] = "done" /\ err[c] = CtxErr
        /\ maxRetries >= 1 /\ requests[c] = 1
        /\ Len(history[c]) = 1 /\ Last(history[c]).status = 503

\* C13: once the context of a call is cancelled, before the first attempt
\* or while an attempt is in flight, no further HTTP attempt is started, and
\* the error the call returns is the cancellation error, also when the
\* attempt that was cancelled was the last one permitted.
C13_CancelStopsAttempts ==
    /\ [](\A c \in {1} : (pc[c] = "done" /\ ctx[c] = "cancelled") => err[c] = CtxErr)
    /\ [][\A c \in Calls : ctx[c] = "cancelled" => requests'[c] = requests[c]]_vars

\* The validation-error check of the client: IsValidationError(err) (go),
\* `instanceof ValidationError` (node)
IsValidationError(e) ==
    IF sdk = "go" THEN ErrorsAs(e, "ValidationError") ELSE e.type = "ValidationError"

\* The call was refused before any request with a Validation error
RefusedAsInvalid(c) == pc[c] = "done" /\ requests[c] = 0 /\ IsValidationError(err[c])

\* C14: a call whose target URL is empty or is not a parseable absolute URL
\* fails with a Validation error and issues no HTTP request.
C14_BadURLRejected ==
    \A c \in Calls :
        (pc[c] # "idle" /\ opts[c].url \notin WellFormedURLs) => RefusedAsInvalid(c)

\* C15: an asynchronous call whose webhook is absent, has an empty URL or
\* has a malformed URL fails with an error the client's validation-error
\* check recognises and issues no HTTP request.
C15_BadWebhookRejected ==
    \A c \in Calls :
        (pc[c] # "idle" /\ op[c] = "async" /\ opts[c].url \in WellFormedURLs
            /\ opts[c].webhook \notin WellFormedURLs)
        => RefusedAsInvalid(c)

\* The (limit, remaining, reset) triple of one response, an absent or
\* unparseable header counting as 0
FullSnapshot(resp) ==
    RateLimitInfo(Atoi(resp.rateLimit.limit).val, Atoi(resp.rateLimit.remaining).val,
                  Atoi(resp.rateLimit.reset).val)

\* The response carries at least one positive rate-limit value
HasRateLimitValues(resp) ==
    FullSnapshot(resp) # RateLimitInfo(0, 0, 0)

\* No call has received an HTTP response yet
NoResponseYet == \A c \in Calls : \A i \in 1..Len(history[c]) : history[c][i].kind # "http"

\* A step in which call c receives an HTTP response
ReceivesResponse(c) ==
    Len(history'[c]) = Len(history[c]) + 1 /\ Last(history'[c]).kind = "http"

\* C16: whatever the interleaving of the calls that write the snapshot and
\* of the reader, a value GetRateLimitInfo returned is nil or the (limit,
\* remaining, reset) of one single response received so far, never fields
\* of two responses.
C16_SnapshotNeverTorn ==
    \A rd \in Readers :
        rpc[rd] = "returned" =>
            \/ got[rd].ptr = "nil"
            \/ \E c \in Calls : \E i \in 1..Len(history[c]) :
                  history[c][i].kind = "http" /\ got[rd] = FullSnapshot(history[c][i])

\* The reader got the snapshot of the first call's response after the other
\* call had received a response with other values
C16_Witness ==
    \E rd \in Readers : \E c, d \in Calls :
        /\ c # d /\ rpc[rd] = "returned" /\ got[rd].ptr = "set"
        /\ Len(history[c]) >= 1 /\ got[rd] = FullSnapshot(history[c][1])
        /\ Len(history[d]) >= 1 /\ Last(history[d]).kind = "http"
        /\ HasRateLimitValues(Last(history[d]))
        /\ FullSnapshot(Last(history[d])) # got[rd]
        /\ pc[c] # "done"

\* C17: as long as the client has received no response, GetRateLimitInfo
\* returns nil, which no snapshot built from headers equals; it does not
\* return a zero-valued snapshot.
C17_NilBeforeAnyResponse ==
    [][\A rd \in Readers :
          (rpc[rd] = "locked" /\ rpc'[rd] = "returned" /\ NoResponseYet) =>
              (got'[rd].ptr = "nil" /\ \A resp \in HeaderResponses : got'[rd] # FullSnapshot(resp))]_vars

\* The reader returned nil while a call was in flight and nothing had been
\* received
C17_Witness ==
    \E rd \in Readers :
        /\ rpc[rd] = "returned" /\ got[rd].ptr = "nil" /\ NoResponseYet
        /\ \E c \in Calls : pc[c] = "inflight"

\* C18 as stated: after an attempt has received an HTTP response the
\* snapshot holds that response's rate-limit values; a response that
\* carries none leaves no values of an earlier response behind (nil or a
\* zero-valued snapshot both count as holding none).
C18_EachResponseOverwrites ==
    [][\A c \in Calls : ReceivesResponse(c) =>
          IF HasRateLimitValues(Last(history'[c]))
          THEN lastRateLimit' = FullSnapshot(Last(history'[c]))
          ELSE lastRateLimit'.ptr = "nil" \/ lastRateLimit' = RateLimitInfo(0, 0, 0)]_vars

\* C18 as amended: after an attempt has received an HTTP response with at
\* least one positive rate-limit value the snapshot holds that response's
\* values (absent headers as 0); a response without any leaves the
\* snapshot as it was.
C18_ResponseWithValuesOverwrites ==
    [][\A c \in Calls : ReceivesResponse(c) =>
          IF HasRateLimitValues(Last(history'[c]))
          THEN lastRateLimit' = FullSnapshot(Last(history'[c]))
          ELSE lastRateLimit' = lastRateLimit]_vars

\* The first call got a 503 with a full set of headers and then a response
\* without any, the other call has not started: the snapshot is still the
\* one of the 503
C18_Witness ==
    \E c, d \in Calls :
        /\ c # d /\ pc[d] = "idle" /\ Len(history[c]) = 2
        /\ history[c][1].kind = "http" /\ HasRateLimitValues(history[c][1])
        /\ history[c][2].kind = "http" /\ ~HasRateLimitValues(history[c][2])
        /\ lastRateLimit = FullSnapshot(history[c][1])

\* The error the client makes of the outcome of one attempt
AttemptError(o, resp) ==
    IF sdk = "go"
    THEN IF IsSuccess(resp) THEN GoParseResult(o, resp).err ELSE GoAttemptError(resp)
    ELSE IF IsSuccess(resp) THEN NoError ELSE handleError(resp)

\* The failed attempts among the responses h, oldest first
RECURSIVE Failures(_)
Failures(h) ==
    IF h = << >> THEN << >>
    ELSE IF IsFailure(h[1]) THEN <<h[1]>> \o Failures(Tail(h)) ELSE Failures(Tail(h))

\* C19: with two calls in flight on one client each call has its own
\* attempt counter and last error.  The requests a call has issued and its
\* attempt counter follow from the number of responses to its own requests,
\* its last error is the error of its own last failed attempt, and two
\* finished calls of the same operation that received the same responses
\* made the same number of attempts and returned the same outcome.
C19_CallsIndependent ==
    /\ \A c \in Calls :
          /\ requests[c] = Len(history[c]) + (IF pc[c] = "inflight" THEN 1 ELSE 0)
          /\ attempt[c] = IF requests[c] = 0 THEN 0
                          ELSE IF sdk = "go" /\ pc[c] = "waiting" THEN requests[c]
                          ELSE requests[c] - 1
          /\ lastErr[c] = IF Failures(history[c]) = << >> THEN NoError
                          ELSE AttemptError(op[c], Last(Failures(history[c])))
    /\ \A c, d \in Calls :
          (pc[c] = "done" /\ pc[d] = "done" /\ op[c] = op[d] /\ history[c] = history[d])
          => (requests[c] = requests[d] /\ result[c] = result[d] /\ err[c] = err[d])

\* One call waits for its second retry while the other has its first
\* request in flight
C19_Witness ==
    \E c, d \in Calls :
        /\ c # d
        /\ pc[c] = "waiting" /\ Len(history[c]) = 2
        /\ pc[d] = "inflight" /\ requests[d] = 1

\* C20: when a call fails after at least one retry, its final attempt
\* having failed, the error it returns is the client's error for the final
\* attempt, and its status code is that of the last response (none after a
\* transport failure).
C20_LastAttemptError ==
    \A c \in Calls :
        (pc[c] = "done" /\ err[c] # NoError /\ requests[c] >= 2 /\ IsFailure(Last(history[c])))
        => /\ err[c] = AttemptError(op[c], Last(history[c]))
           /\ err[c].status = Last(history[c]).status

----------------------------------------------------------------------------
(* C21 - C30 *)

\* C21: a response with a status below 400 ends the call with a result and
\* no error: the job descriptor when the body is JSON, the raw bytes
\* otherwise; it is never retried.
C21_Below400IsSuccess ==
    \A c \in Calls : \A i \in 1..Len(history[c]) :
        IsSuccess(history[c][i]) =>
            /\ EndedAt(c, i)
            /\ err[c] = NoError
            /\ result[c] = history[c][i].body

\* C22: an attempt that fails without a response is classified as a
\* Timeout error when the transport timed out and as a Network error
\* otherwise, and the call goes on to another attempt exactly when retries
\* remain.
C22_TransportFailureClass ==
    \A c \in Calls :
        /\ \A i \in 1..Len(history[c]) :
              history[c][i].kind \in {"timeout", "network"} =>
                  (WentOn(c, i) <=> i - 1 < maxRetries)
        /\ (history[c] # << >> /\ Last(history[c]).kind = "network")
              => lastErr[c].type = "NetworkError"
        /\ (history[c] # << >> /\ Last(history[c]).kind = "timeout")
              => lastErr[c].type = "TimeoutError"

----------------------------------------------------------------------------
(* The request body: buildScreenshotRequest and buildPDFRequest of the go
   client as functions of the options.  A JSON value is a record with its
   type t and its content v; a JSON object is a function from its keys.  One
   field of each kind the builders treat is modelled: a string, a number, a
   flag, a slice, a pointer, an optional struct with optional members, an
   optional struct with fixed members, and the webhook. *)

Str(s) == [t |-> "string", v |-> s]
Num(n) == [t |-> "number", v |-> n]
Bool(b) == [t |-> "boolean", v |-> b]
Arr(s) == [t |-> "array", v |-> s]
Obj(f) == [t |-> "object", v |-> f]
Null == [t |-> "null", v |-> "null"]

\* json.Marshal of a *bool held in an interface{}
PtrBool(p) == IF p.ptr = "nil" THEN Null ELSE Bool(p.v)

NilPtr == [ptr |-> "nil"]

\* `if cond { req[k] = v }`
Put(req, cond, k, v) ==
    IF cond THEN [x \in DOMAIN req \cup {k} |-> IF x = k THEN v ELSE req[x]]
    ELSE req

EmptyMap == [x \in {} |-> Null]

\* `req := map[string]interface{}{"url": opts.URL}`
UrlOnly(o) == [x \in {"url"} |-> Str(o.URL)]

\* The viewport object of both builders
ViewportBody(vp) ==
    LET m1 == Put(EmptyMap, vp.Width > 0, "width", Num(vp.Width))
    IN  Put(m1, vp.Height > 0, "height", Num(vp.Height))

\* The webhook object of both builders
WebhookBody(w) ==
    LET m1 == [x \in {"url"} |-> Str(w.URL)]
    IN  Put(m1, w.Secret # "", "secret", Str(w.Secret))

\* Variant of buildScreenshotRequest: the javascript pointer is stored as it is
buildScreenshotRequest_NoOmit(o) ==
    LET r1 == Put(UrlOnly(o), o.Format # "", "format", Str(o.Format))
        r2 == Put(r1, o.Quality > 0, "quality", Num(o.Quality))
        r3 == Put(r2, o.FullPage, "fullPage", Bool(TRUE))
        r4 == Put(r3, o.Viewport # NilPtr /\ DOMAIN ViewportBody(o.Viewport) # {},
                  "viewport", Obj(ViewportBody(o.Viewport)))
        r5 == Put(r4, o.ScrollPosition # NilPtr, "scrollPosition",
                  Obj([x \in {"x", "y"} |-> Num(IF x = "x" THEN o.ScrollPosition.X
                                                 ELSE o.ScrollPosition.Y)]))
        r6 == Put(r5, Len(o.Cookies) > 0, "cookies", Arr(o.Cookies))
        r7 == Put(r6, TRUE, "javascript", PtrBool(o.JavaScript))
    IN  Put(r7, o.Webhook # NilPtr, "webhook", Obj(WebhookBody(o.Webhook)))

buildScreenshotRequest(o) ==
    LET r1 == Put(UrlOnly(o), o.Format # "", "format", Str(o.Format))
        r2 == Put(r1, o.Quality > 0, "quality", Num(o.Quality))
        r3 == Put(r2, o.FullPage, "fullPage", Bool(TRUE))
        r4 == Put(r3, o.Viewport # NilPtr /\ DOMAIN ViewportBody(o.Viewport) # {},
                  "viewport", Obj(ViewportBody(o.Viewport)))
        r5 == Put(r4, o.ScrollPosition # NilPtr, "scrollPosition",
                  Obj([x \in {"x", "y"} |-> Num(IF x = "x" THEN o.ScrollPosition.X
                                                 ELSE o.ScrollPosition.Y)]))
        r6 == Put(r5, Len(o.Cookies) > 0, "cookies", Arr(o.Cookies))
        r7 == Put(r6, o.JavaScript # NilPtr, "javascript", Bool(o.JavaScript.v))
    IN  Put(r7, o.Webhook # NilPtr, "webhook", Obj(WebhookBody(o.Webhook)))

\* The margin object of buildPDFRequest
MarginBody(m) ==
    LET m1 == Put(EmptyMap, m.Top # "", "top", Str(m.Top))
    IN  Put(m1, m.Bottom # "", "bottom", Str(m.Bottom))

buildPDFRequest(o) ==
    LET r1 == Put(UrlOnly(o), o.Format # "", "format", Str(o.Format))
        r2 == Put(r1, o.Scale # 0, "scale", Num(o.Scale))
        r3 == Put(r2, o.PrintBackground, "printBackground", Bool(TRUE))
        r4 == Put(r3, o.Margin # NilPtr /\ DOMAIN MarginBody(o.Margin) # {},
                  "margin", Obj(MarginBody(o.Margin)))
        r5 == Put(r4, o.JavaScript # NilPtr, "javascript", Bool(o.JavaScript.v))
    IN  Put(r5, o.Webhook # NilPtr, "webhook", Obj(WebhookBody(o.Webhook)))

\* The values of the option fields
ViewportValues ==
    {NilPtr} \cup { [ptr |-> "set", Width |-> w, Height |-> h] : w \in {0, 1280}, h \in {0, 720} }
PositionValues ==
    {NilPtr} \cup { [ptr |-> "set", X |-> x, Y |-> y] : x \in {0, 100}, y \in {0, 100} }
BoolPtrValues == {NilPtr} \cup { [ptr |-> "set", v |-> b] : b \in BOOLEAN }
WebhookValues ==
    {NilPtr} \cup { [ptr |-> "set", URL |-> "https://yoursite.com/webhook", Secret |-> s] :
                      s \in {"", "secret"} }
MarginValues ==
    {NilPtr} \cup { [ptr |-> "set", Top |-> t, Bottom |-> b] : t \in {"", "1cm"}, b \in {"", "1cm"} }

ScreenshotOptions ==
    [URL : {"https://example.com"}, Format : {"", "png"}, Quality : {0, 80},
     FullPage : BOOLEAN, Viewport : ViewportValues, ScrollPosition : PositionValues,
     Cookies : {<< >>, <<"session">>}, JavaScript : BoolPtrValues, Webhook : WebhookValues]

PDFOptions ==
    [URL : {"https://example.com"}, Format : {"", "A4"}, Scale : {0, 1},
     PrintBackground : BOOLEAN, Margin : MarginValues,
     JavaScript : BoolPtrValues, Webhook : WebhookValues]

\* The zero value of the options: nothing set
ZeroOptions ==
    [URL |-> "", Format |-> "", Quality |-> 0, Scale |-> 0, FullPage |-> FALSE,
     PrintBackground |-> FALSE, Viewport |-> NilPtr, ScrollPosition |-> NilPtr,
     Margin |-> NilPtr, Cookies |-> << >>, JavaScript |-> NilPtr, Webhook |-> NilPtr]

\* The option field each key of the body is taken from
FieldOf ==
    [url |-> "URL", format |-> "Format", quality |-> "Quality", scale |-> "Scale",
     fullPage |-> "FullPage", printBackground |-> "PrintBackground",
     viewport |-> "Viewport", scrollPosition |-> "ScrollPosition", margin |-> "Margin",
     cookies |-> "Cookies", javascript |-> "JavaScript", webhook |-> "Webhook"]

InitBuild ==
    /\ InitConfig /\ sdk = "go" /\ maxRetries = 0 /\ retryWaitMax = DefaultRetryWaitMax
    /\ InitCalls(1) /\ InitReaders(0)

\* buildScreenshotRequest(opts) / buildPDFRequest(opts) is applied to options
\* that passed the validation
BuildRequest ==
    /\ sdk = "go"
    /\ ret = NoValue
    /\ \E a \in { [fn |-> "buildScreenshotRequest", opts |-> o] : o \in ScreenshotOptions }
             \cup { [fn |-> "buildPDFRequest", opts |-> o] : o \in PDFOptions } :
         /\ arg' = a
         /\ ret' = Returned(IF a.fn = "buildScreenshotRequest"
                            THEN buildScreenshotRequest(a.opts)
                            ELSE buildPDFRequest(a.opts))
    /\ UNCHANGED <<config, op, pc, attempt, lastErr, wait, history, requests, result, err,
                   opts, ctx, lastRateLimit, readers, client, apiKey, setter, authorization>>

NextBuild ==
    \/ BuildRequest

SpecBuild == InitBuild /\ [][NextBuild]_vars

\* The option field behind key k of the body is set
FieldSet(o, k) == o[FieldOf[k]] # ZeroOptions[FieldOf[k]]

\* No member of the JSON object is null
NoNullIn(obj) == \A k \in DOMAIN obj : obj[k].t # "null"

\* C23: the body built from options with only the URL set has the key url
\* alone; a key other than url is in the body only if its option field was
\* set; no key, of the body or of an object nested in it, has a null value.
C23_OptionalFieldsOmitted ==
    ret # NoValue =>
        LET o == arg.opts
            body == ret.v
        IN  /\ "url" \in DOMAIN body
            /\ (\A k \in DOMAIN FieldOf \ {"url"} :
                    (FieldOf[k] \in DOMAIN o) => ~FieldSet(o, k))
                  => DOMAIN body = {"url"}
            /\ \A k \in DOMAIN body : k \in DOMAIN FieldOf /\ FieldSet(o, k)
            /\ NoNullIn(body)
            /\ \A k \in DOMAIN body : body[k].t = "object" => NoNullIn(body[k].v)

\* A body built from screenshot options with only the URL set
C23_Witness ==
    /\ ret # NoValue
    /\ arg.fn = "buildScreenshotRequest"
    /\ \A k \in DOMAIN FieldOf \ {"url"} :
          (FieldOf[k] \in DOMAIN arg.opts) => ~FieldSet(arg.opts, k)
    /\ DOMAIN ret.v = {"url"}

----------------------------------------------------------------------------
(* The API key: the client is constructed with any key, one call is made,
   and (go) another goroutine calls SetAPIKey at any moment.  The go call is
   taken in two steps, the check of the key and the sending of the first
   request, because the key can change in between. *)

InitKey ==
    /\ sdk \in {"go", "node"}
    /\ maxRetries \in 0..1
    /\ retryWaitMin = DefaultRetryWaitMin
    /\ retryWaitMax = DefaultRetryWaitMax
    /\ retryDelay = DefaultRetryDelay
    /\ lastRateLimit = NilRateLimit
    /\ client = "none"
    /\ apiKey = ""
    /\ setter = NoSetter
    /\ InitPure
    /\ InitCalls(1) /\ InitReaders(0)

\* go: New(k).  node: new ScreenCraftClient({apiKey: k}), which throws on
\* an empty key and leaves no client behind.
Construct ==
    /\ client = "none"
    /\ \E k \in Keys :
         /\ apiKey' = k
         /\ client' = IF sdk = "node" /\ k = "" THEN "API key is required" ELSE "built"
    /\ UNCHANGED <<config, op, pc, attempt, lastErr, wait, history, requests, result, err,
                   opts, ctx, lastRateLimit, readers, setter, authorization, arg, ret>>

\* go: SetAPIKey(k) takes c.mu.Lock() and starts storing k
SetAPIKeyBegin ==
    /\ sdk = "go"
    /\ client = "built"
    /\ setter.pc = "idle"
    /\ \A rd \in Readers : rpc[rd] # "locked"
    /\ \E k \in Keys : setter' = [pc |-> "writing", key |-> k]
    /\ UNCHANGED <<config, op, pc, attempt, lastErr, wait, history, requests, result, err,
                   opts, ctx, lastRateLimit, readers, client, apiKey, authorization, arg, ret>>

\* go: the store is done and SetAPIKey releases mu
SetAPIKeyEnd ==
    /\ sdk = "go"
    /\ setter.pc = "writing"
    /\ apiKey' = setter.key
    /\ setter' = NoSetter
    /\ UNCHANGED <<config, op, pc, attempt, lastErr, wait, history, requests, result, err,
                   opts, ctx, lastRateLimit, readers, client, authorization, arg, ret>>

\* go: the call validates its options and doRequest checks the key
KeyCheck(c) ==
    /\ sdk = "go"
    /\ client = "built"
    /\ pc[c] = "idle"
    /\ \E in \in AnyInputs, k \in ReadAPIKey :
         /\ op' = [op EXCEPT ![c] = in.op]
         /\ opts' = [opts EXCEPT ![c] = in.opts]
         /\ LET e == GoValidate(in.op, in.opts)
                d == GoBeforeLoop(k, maxRetries)
            IN  IF e # NoError \/ d # NoError
                THEN Finish(c, "none", IF e # NoError THEN e ELSE d)
                ELSE /\ pc' = [pc EXCEPT ![c] = "checked"]
                     /\ UNCHANGED <<result, err>>
    /\ UNCHANGED <<config, attempt, lastErr, wait, history, requests, ctx, lastRateLimit,
                   readers, others, authorization>>

\* go: the first iteration of the loop builds the request, sets its
\* Authorization header from c.apiKey and sends it
KeySend(c) ==
    /\ sdk = "go"
    /\ pc[c] = "checked"
    /\ pc' = [pc EXCEPT ![c] = "inflight"]
    /\ requests' = [requests EXCEPT ![c] = 1]
    /\ \E h \in ReadAPIKey : authorization' = [authorization EXCEPT ![c] = Bearer(h)]
    /\ UNCHANGED <<config, op, attempt, lastErr, wait, history, result, err,
                   opts, ctx, lastRateLimit, readers, others>>

NodeStartAny(c) == sdk = "node" /\ StartWith(c, AnyInputs)

NextKey ==
    \/ Construct
    \/ SetAPIKeyBegin
    \/ SetAPIKeyEnd
    \/ \E c \in Calls : KeyCheck(c)
    \/ \E c \in Calls : KeySend(c)
    \/ \E c \in Calls : NodeStartAny(c)
    \/ \E c \in Calls : GoReceiveFew(c)
    \/ \E c \in Calls : GoRetry(c)
    \/ \E c \in Calls : NodeReceiveFew(c)
    \/ \E c \in Calls : NodeRetry(c)

SpecKey == InitKey /\ [][NextKey]_vars

\* Call c is made now, while the key of the go client is empty and nobody
\* is changing it
MadeWithoutKey(c) ==
    /\ sdk = "go" /\ apiKey = "" /\ setter.pc = "idle"
    /\ pc[c] = "idle" /\ pc'[c] # "idle"

C29_HeaderCarriesCheckedKey ==
    \A c \in Calls :
        (sdk = "go" /\ authorization[c] # NoHeader)
            => authorization[c].key \in Keys \ {""}

\* C25: in the node client with the default retryDelay the delay grows
\* strictly with the attempt number whatever the two jitter draws are: each
\* wait of a call is longer than the wait before it, and
\* calculateRetryDelay(n + 1) > calculateRetryDelay(n) for every attempt
\* number a call can reach and the one after.
C25_NodeDelayStrictlyIncreasing ==
    /\ [][\A c \in {1} :
            (sdk = "node" /\ pc[c] = "inflight" /\ pc'[c] = "waiting" /\ wait[c] > 0)
                => wait'[c] > wait[c]]_vars
    /\ [](sdk = "node" =>
            \A n \in 0..(maxRetries + 1) : \A r1 \in RandDraws, r2 \in RandDraws :
                calculateRetryDelay(n + 1, r1) > calculateRetryDelay(n, r2))

\* The node client waits a second time, with the smallest jitter, after a
\* first wait
C25_Witness ==
    /\ sdk = "node" /\ pc[1] = "waiting"
    /\ Len(history[1]) = 2
    /\ wait[1] = calculateRetryDelay(1, 0)

----------------------------------------------------------------------------
(* The rate-limit headers in the node client: extractRateLimitInfo as a
   function of the headers of an error response.  A header that is absent
   reads as undefined and an empty one as ''; both are falsy and both are
   "" here. *)

\* parseInt(s, 10) on a header value: the number, or NaN
ParseInt(s) == IF s \in DOMAIN NumeralValue THEN [nan |-> FALSE, val |-> NumeralValue[s]]
               ELSE [nan |-> TRUE, val |-> 0]

Undefined == [t |-> "undefined"]

\* Variant of extractRateLimitInfo: the triple is built when any of the
\* three headers is there
extractRateLimitInfo_Partial(headers) ==
    IF headers.limit # "" \/ headers.remaining # "" \/ headers.reset # ""
    THEN [t |-> "RateLimitInfo",
          limit |-> ParseInt(headers.limit),
          remaining |-> ParseInt(headers.remaining),
          reset |-> ParseInt(headers.reset)]
    ELSE Undefined

extractRateLimitInfo(headers) ==
    IF headers.limit # "" /\ headers.remaining # "" /\ headers.reset # ""
    THEN [t |-> "RateLimitInfo",
          limit |-> ParseInt(headers.limit),
          remaining |-> ParseInt(headers.remaining),
          reset |-> ParseInt(headers.reset)]
    ELSE Undefined

\* Header values: missing, zero, numbers, and a word
NodeHeaderValues == {"", "0", "5", "100", "soon"}

NodeHeaderSets == [limit : NodeHeaderValues, remaining : NodeHeaderValues, reset : NodeHeaderValues]

InitExtract ==
    /\ InitConfig /\ sdk = "node" /\ maxRetries = 0
    /\ InitCalls(1) /\ InitReaders(0)

\* handleError calls extractRateLimitInfo on the response of a failed request
ExtractRateLimitInfo ==
    /\ sdk = "node"
    /\ ret = NoValue
    /\ \E h \in NodeHeaderSets :
         /\ arg' = [fn |-> "extractRateLimitInfo", headers |-> h]
         /\ ret' = Returned(extractRateLimitInfo(h))
    /\ UNCHANGED <<config, op, pc, attempt, lastErr, wait, history, requests, result, err,
                   opts, ctx, lastRateLimit, readers, client, apiKey, setter, authorization>>

NextExtract ==
    \/ ExtractRateLimitInfo

SpecExtract == InitExtract /\ [][NextExtract]_vars

\* C26: extractRateLimitInfo returns the three values parsed from the three
\* headers when all three are there, and undefined when one of them is
\* missing; what it returns never has some of the three without the others.
C26_TripleOrUndefined ==
    ret # NoValue =>
        LET h == arg.headers IN
        IF h.limit # "" /\ h.remaining # "" /\ h.reset # ""
        THEN /\ DOMAIN ret.v = {"t", "limit", "remaining", "reset"}
             /\ ret.v.limit = ParseInt(h.limit)
             /\ ret.v.remaining = ParseInt(h.remaining)
             /\ ret.v.reset = ParseInt(h.reset)
        ELSE ret.v = Undefined

\* The triple of a response whose headers say that nothing remains
C26_Witness ==
    /\ ret # NoValue
    /\ arg.headers = [limit |-> "100", remaining |-> "0", reset |-> "5"]
    /\ ret.v.remaining = ParseInt("0")

\* The same response with a body that parses as JSON when this one does
\* not, and the other way round
OtherBody(resp) == [resp EXCEPT !.json = ~@]

\* Whether the client goes on to another attempt after resp at attempt a
RetryDecision(resp, a) ==
    IF sdk = "go" THEN ~GoGivesUp(GoAttemptError(resp), a, maxRetries)
    ELSE shouldRetry(resp, a, maxRetries) /\ a < maxRetries

\* C27: a 400, 401, 429 or 5xx response gets the class the table gives its
\* status code, and the same class, Retry-After and retry decision as the
\* same response with the other kind of body (parseable JSON or not).
C27_ClassByStatusAlone ==
    \A c \in Calls : \A i \in 1..Len(history[c]) :
        LET resp == history[c][i] IN
        (resp.kind = "http" /\ resp.status \in {400, 401, 429, 500, 503}) =>
            /\ ClassOf(resp) = ClassOf(OtherBody(resp))
            /\ ClassOf(resp) = TableClass(resp) \o "Error"
            /\ (sdk = "go" =>
                  GetRetryAfter(GoAttemptError(resp)) = GetRetryAfter(GoAttemptError(OtherBody(resp))))
            /\ (WentOn(c, i) <=> RetryDecision(OtherBody(resp), i - 1))

----------------------------------------------------------------------------
(* Any maxRetries: WithMaxRetries stores its argument as it is, so the go
   client can hold a negative maxRetries. *)

\* The values given to WithMaxRetries
AnyMaxRetries == (0 - 2)..1

InitAnyRetries ==
    /\ sdk = "go"
    /\ maxRetries \in AnyMaxRetries
    /\ retryWaitMin = DefaultRetryWaitMin
    /\ retryWaitMax = DefaultRetryWaitMax
    /\ retryDelay = DefaultRetryDelay
    /\ lastRateLimit = NilRateLimit
    /\ InitClient /\ InitPure
    /\ InitCalls(1) /\ InitReaders(0)

NextAnyRetries ==
    \/ \E c \in Calls : StartAny(c)
    \/ \E c \in Calls : GoReceive(c)
    \/ \E c \in Calls : GoRetry(c)

SpecAnyRetries == InitAnyRetries /\ [][NextAnyRetries]_vars

\* C28: a go call that has returned either made at least one request or
\* returned an error from doRequest or from the validation before it; it
\* never got a nil response with a nil error, which Screenshot and PDF
\* would dereference.
C28_NeverNilNil ==
    \A c \in Calls :
        (sdk = "go" /\ pc[c] = "done") =>
            /\ requests[c] >= 1 \/ err[c] # NoError
            /\ err[c].type # "nil pointer dereference"

----------------------------------------------------------------------------
(* Termination.  Every HTTP attempt returns a response or a transport
   error (httpClient has a Timeout, axios a timeout), and every timer fires:
   the steps that receive and the steps that end a wait are taken when they
   stay possible.  Nothing obliges the caller to make the call. *)

FairSpecValidate ==
    /\ SpecValidate
    /\ WF_vars(\E c \in Calls : GoReceiveFew(c))
    /\ WF_vars(\E c \in Calls : GoRetry(c))
    /\ WF_vars(\E c \in Calls : NodeReceiveFew(c))
    /\ WF_vars(\E c \in Calls : NodeRetry(c))

\* C30: a call that was made returns, with a result or an error, after at
\* most maxRetries + 1 requests, whatever the responses are.
C30_CallTerminates ==
    /\ \A c \in {1} : (pc[c] # "idle") ~> (pc[c] = "done")
    /\ [](\A c \in {1} : requests[c] <= maxRetries + 1)
    /\ [](\A c \in {1} : pc[c] = "done" => (result[c] # "none" \/ err[c] # NoError))

\* A call that returned after using up its retries
C30_Witness ==
    /\ pc[1] = "done" /\ maxRetries >= 1
    /\ requests[1] = maxRetries + 1
    /\ err[1] # NoError

====
